---- MODULE Spec2Model ----
(***************************************************************************)
(* Model of the prompt marketplace backend: the entitlement and watermark  *)
(* resolver (routes/prompts.py get_full_prompt), the purchase routes       *)
(* (routes/purchases.py) and the payment confirmation                      *)
(* (routes/payments.py confirm_purchase).                                  *)
(*                                                                         *)
(* get_full_prompt is a plain def: the framework serves it on worker       *)
(* threads, so its database statements interleave with those of other      *)
(* requests.  Its reads of the prompt and of the purchase are one step     *)
(* (prompt rows are never deleted and their owner and content never        *)
(* change); the watermark lookup and the watermark insert/commit are a     *)
(* step each.  The other handlers issue a single commit and are one step.  *)
(* req holds the requests that are between two statements, last the        *)
(* response returned most recently.                                        *)
(*                                                                         *)
(* Spec is the entitlement, purchase and payment handlers over a store     *)
(* whose commits succeed; SpecSeq the same with requests that do not       *)
(* overlap; SpecFail adds the commit of the watermark row that raises;     *)
(* SpecViews is the public detail read (get_prompt), which shares no       *)
(* column but views with the others, with its requests overlapping.        *)
(* SpecPayout is create_payout overlapping with confirm_purchase over a    *)
(* seller's balance; SpecTokens the full reads of two buyers of one        *)
(* prompt; SpecOutputs, SpecBundles and SpecPrompts the handlers of        *)
(* routes/outputs.py, routes/bundles.py and create_prompt; SpecWebhook     *)
(* the webhook with its answers among the other ways to a purchase.        *)
(*                                                                         *)
(* A table is the bag of its rows without the autoincrement key, which no  *)
(* handler reads: two rows that differ in the key only are two copies.     *)
(* The watermark rows carry the columns the handler reads and writes       *)
(* (prompt_id, buyer_id, token); the purchase rows carry user_id,          *)
(* prompt_id and the payment identifier.                                   *)
(***************************************************************************)
EXTENDS Integers, Sequences, FiniteSets, Bags, TLC

\* ------------------------------------------------------------------ bounds
NumReq == 2          \* get_full_prompt requests in service at once
NumRand == 2         \* distinct values of the random token component
MaxPurchases == 2    \* cap on the rows of the purchase table
MaxViews == 3        \* cap on a prompt's views counter
MaxOutputs == 1      \* cap on the create_output calls that store a row
MaxBundles == 1      \* cap on the rows of the bundle table
MaxPrompts == 2      \* cap on the rows create_prompt adds to the prompt table

\* ------------------------------------------------------- program constants
HTTP_200 == 200
HTTP_400 == 400
HTTP_401 == 401
HTTP_403 == 403
HTTP_404 == 404
HTTP_500 == 500      \* the framework's answer to an exception no handler catches
ZWSP == "u200b"      \* the zero-width space wrapped around the token
MIN_PAYOUT == 1000   \* the minimum withdrawal, in cents

\* ------------------------------------------------------------ the universe
Users == {1, 2}                 \* rows of the user table
PromptIds == {1}                \* rows of the prompt table
MissingPid == 1 + Cardinality(PromptIds)   \* an id with no prompt row
Pids == PromptIds \cup {MissingPid}
\* what a request carries in its Authorization header
NoCred == [kind |-> "none", sub |-> 0]          \* no header at all
BadCred == [kind |-> "invalid", sub |-> 0]      \* a token that does not decode
Bearer(u) == [kind |-> "bearer", sub |-> u]     \* a valid token with sub = u
Creds == {NoCred, BadCred} \cup {Bearer(u) : u \in Users}
Slots == 1..NumReq
Rands == 1..NumRand

VARIABLES
  stripeSecret,   \* STRIPE_SECRET_KEY is configured
  prompts,        \* prompt table: id -> row
  purchases,      \* purchase table: bag of rows
  analytics,      \* analytics table: bag of rows
  watermarks,     \* watermark table: bag of rows
  balance,        \* user.balance_cents per user
  outputs,        \* prompt output table: id -> row
  bundles,        \* bundle table: id -> row
  bundle_prompts, \* bundle link table: set of (bundle_id, prompt_id) keys
  payouts,        \* cents each user has been paid out by create_payout
  req,            \* requests in service: slot -> handler, position, locals
  last            \* the request answered last, with its response

vars == <<stripeSecret, prompts, purchases, analytics, watermarks, balance,
          outputs, bundles, bundle_prompts, payouts, req, last>>

\* the tables of the outputs and bundles routes
catalog == <<outputs, bundles, bundle_prompts>>

store == <<prompts, purchases, analytics, watermarks, balance, catalog>>

\* --------------------------------------------------------------- responses
NoBody == << >>

\* op is the handler serving the request, id the output or bundle its path
\* names; rating, title, price and ids are the rating, title, price_cents and
\* prompt_ids its body carries ({} where it carries none); signed and type
\* are a webhook delivery's signature check and event type; views is the
\* counter value its session holds for the prompt (get_prompt only), amount
\* the cents asked for and loaded the balance its session holds for the user
\* (create_payout only)
Idle == [op |-> "get_full_prompt", pc |-> "idle", cred |-> NoCred, user |-> 0,
         pid |-> 0, id |-> 0, rating |-> {}, title |-> {}, price |-> {},
         ids |-> << >>, signed |-> FALSE, type |-> "", raw |-> NoBody,
         views |-> 0, amount |-> 0, loaded |-> 0,
         owns |-> FALSE, bought |-> FALSE, existing |-> FALSE,
         status |-> 0, detail |-> "", hasBody |-> FALSE, body |-> NoBody]

\* raise HTTPException(status_code=st, detail=dt)
Fail(r, st, dt) == [r EXCEPT !.pc = "done", !.status = st, !.detail = dt,
                             !.hasBody = FALSE, !.body = NoBody]

\* return {"id": p.id, "content": c}
Ok(r, c) == [r EXCEPT !.pc = "done", !.status = HTTP_200, !.detail = "",
                      !.hasBody = TRUE, !.body = c]

\* ------------------------------------------------------------ auth.py
\* get_current_user: the outcomes of the bearer dependency for a credential.
\* A missing Authorization header is rejected by HTTPBearer itself, with 403
\* or 401 depending on the framework release.
get_current_user(cred) ==
  IF cred.kind = "none"
    THEN {[ok |-> FALSE, uid |-> 0, status |-> HTTP_403,
           detail |-> "Not authenticated"],
          [ok |-> FALSE, uid |-> 0, status |-> HTTP_401,
           detail |-> "Not authenticated"]}
  ELSE IF cred.kind = "invalid"
    THEN {[ok |-> FALSE, uid |-> 0, status |-> HTTP_401,
           detail |-> "Invalid token"]}
  ELSE IF cred.sub \notin Users
    THEN {[ok |-> FALSE, uid |-> 0, status |-> HTTP_401,
           detail |-> "User not found"]}
  ELSE {[ok |-> TRUE, uid |-> cred.sub, status |-> HTTP_200, detail |-> ""]}

\* ------------------------------------------------------------ queries
\* str(id) and the values uuid4().hex[:8] is drawn from
IdStr == <<"1", "2", "3", "4">>
Hex8 == <<"0a1b2c3d", "4e5f6a7b", "8c9d0e1f", "deadbeef">>

\* a row of the prompt table
PromptRow(owner, content, price, active) ==
  [owner_id |-> owner, content |-> content, price_cents |-> price,
   is_active |-> active, views |-> 0, downloads |-> 0]

\* the id the table gives a new row
NextId(table) ==
  IF DOMAIN table = {} THEN 1
  ELSE 1 + CHOOSE m \in DOMAIN table : \A k \in DOMAIN table : k <= m

\* select(Purchase).where(user_id == u, prompt_id == pid)
PurchasesOf(u, pid) ==
  {pu \in BagToSet(purchases) : pu.user_id = u /\ pu.prompt_id = pid}

\* select(PromptWatermark).where(prompt_id == pid, buyer_id == u)
WatermarksOf(pid, u) ==
  {w \in BagToSet(watermarks) : w.prompt_id = pid /\ w.buyer_id = u}

\* session.add(row); session.commit()
Insert(table, row) == table (+) SetToBag({row})

\* the token without the buyer's id
watermark_token_NoBuyer(u, rnd) == <<"PM_", "", "_", Hex8[rnd]>>

\* f"PM_{user.id}_{uuid.uuid4().hex[:8]}"
watermark_token(u, rnd) == <<"PM_", IdStr[u], "_", Hex8[rnd]>>

\* the marker without its closing zero-width character
watermark_Unclosed(token) == <<ZWSP>> \o token

\* "\\u200b" + watermark_token + "\\u200b"
watermark(token) == <<ZWSP>> \o token \o <<ZWSP>>

\* ------------------------------------------------- prompts.py get_full_prompt
\* the decision watermarking every holder of a purchase, owners included
Resolve_MarkOwners(r) ==
  IF r.pid \notin DOMAIN prompts
    THEN Fail(r, HTTP_404, "Not Found")
  ELSE LET p == prompts[r.pid]
           owns == (p.owner_id = r.user)
           bought == PurchasesOf(r.user, r.pid) # {}
           r1 == [r EXCEPT !.raw = p.content, !.owns = owns, !.bought = bought]
       IN IF ~(owns \/ bought)
            THEN Fail(r1, HTTP_403, "Purchase required")
          ELSE IF bought
            THEN [r1 EXCEPT !.pc = "lookup"]
          ELSE Ok(r1, p.content)

\* the decision without the 403 check
Resolve_NoCheck(r) ==
  IF r.pid \notin DOMAIN prompts
    THEN Fail(r, HTTP_404, "Not Found")
  ELSE LET p == prompts[r.pid]
           owns == (p.owner_id = r.user)
           bought == PurchasesOf(r.user, r.pid) # {}
           r1 == [r EXCEPT !.raw = p.content, !.owns = owns, !.bought = bought]
       IN IF bought /\ ~owns
            THEN [r1 EXCEPT !.pc = "lookup"]
          ELSE Ok(r1, p.content)

\* the decision sending every user who is not the owner to the watermark path
Resolve_MarkEveryone(r) ==
  IF r.pid \notin DOMAIN prompts
    THEN Fail(r, HTTP_404, "Not Found")
  ELSE LET p == prompts[r.pid]
           owns == (p.owner_id = r.user)
           bought == PurchasesOf(r.user, r.pid) # {}
           r1 == [r EXCEPT !.raw = p.content, !.owns = owns, !.bought = bought]
       IN IF ~owns
            THEN [r1 EXCEPT !.pc = "lookup"]
          ELSE Ok(r1, p.content)

\* the decision that also grants when the previous response granted
Resolve_Sticky(r) ==
  IF r.pid \notin DOMAIN prompts
    THEN Fail(r, HTTP_404, "Not Found")
  ELSE LET p == prompts[r.pid]
           owns == (p.owner_id = r.user)
           bought == PurchasesOf(r.user, r.pid) # {}
           r1 == [r EXCEPT !.raw = p.content, !.owns = owns, !.bought = bought]
       IN IF ~(owns \/ bought) /\ last.status # HTTP_200
            THEN Fail(r1, HTTP_403, "Purchase required")
          ELSE IF bought /\ ~owns
            THEN [r1 EXCEPT !.pc = "lookup"]
          ELSE Ok(r1, p.content)

\* the decision that looks at the purchase before the ownership
Resolve_BoughtFirst(r) ==
  IF r.pid \notin DOMAIN prompts
    THEN Fail(r, HTTP_404, "Not Found")
  ELSE LET p == prompts[r.pid]
           owns == (p.owner_id = r.user)
           bought == PurchasesOf(r.user, r.pid) # {}
           r1 == [r EXCEPT !.raw = p.content, !.owns = owns, !.bought = bought]
       IN IF bought
            THEN [r1 EXCEPT !.pc = "lookup"]
          ELSE IF owns
            THEN Ok(r1, p.content)
          ELSE Fail(r1, HTTP_403, "Purchase required")

\* The get_current_user dependency, then the body down to the decision:
\* session.get(Prompt), owns, bought, the 403, and the owner's return.
Resolve(r) ==
  IF r.pid \notin DOMAIN prompts
    THEN Fail(r, HTTP_404, "Not Found")
  ELSE LET p == prompts[r.pid]
           owns == (p.owner_id = r.user)
           bought == PurchasesOf(r.user, r.pid) # {}
           r1 == [r EXCEPT !.raw = p.content, !.owns = owns, !.bought = bought]
       IN IF ~(owns \/ bought)
            THEN Fail(r1, HTTP_403, "Purchase required")
          ELSE IF bought /\ ~owns
            THEN [r1 EXCEPT !.pc = "lookup"]
          ELSE Ok(r1, p.content)

\* A request answered here (rejected, or served to the owner) is over;
\* a purchaser's request goes on to the watermark lookup in slot s, the first
\* free one.
FullStart(s, cred, pid) ==
  /\ req[s].pc = "idle"
  /\ \A t \in Slots : t < s => req[t].pc # "idle"
  /\ \E a \in get_current_user(cred) :
       LET r == [Idle EXCEPT !.cred = cred, !.user = a.uid, !.pid = pid]
           r1 == IF a.ok THEN Resolve(r) ELSE Fail(r, a.status, a.detail)
       IN IF r1.pc = "done"
            THEN last' = r1 /\ UNCHANGED req
            ELSE req' = [req EXCEPT ![s] = r1] /\ UNCHANGED last
  /\ UNCHANGED <<stripeSecret, payouts, store>>

\* the insert that replaces the rows of the pair
NewWatermark_Replace(pid, u, token) ==
  Insert([w \in BagToSet(watermarks) \ WatermarksOf(pid, u) |-> watermarks[w]],
         [prompt_id |-> pid, buyer_id |-> u, token |-> token])

\* the lookup that never reuses a stored row
FullLookup_NoReuse(s) ==
  /\ req[s].pc = "lookup"
  /\ req' = [req EXCEPT ![s].pc = "insert"]
  /\ UNCHANGED <<stripeSecret, payouts, store, last>>

\* the lookup that stores the token again when it reuses it
FullLookup_Refresh(s) ==
  /\ req[s].pc = "lookup"
  /\ LET r == req[s] IN
       IF WatermarksOf(r.pid, r.user) = {}
         THEN req' = [req EXCEPT ![s].pc = "insert"]
              /\ UNCHANGED <<last, watermarks>>
         ELSE \E w \in WatermarksOf(r.pid, r.user) :
                /\ last' = Ok([r EXCEPT !.existing = TRUE],
                              r.raw \o watermark(w.token))
                /\ req' = [req EXCEPT ![s] = Idle]
                /\ watermarks' = NewWatermark_Replace(r.pid, r.user, w.token)
  /\ UNCHANGED <<stripeSecret, payouts, catalog,
                   prompts, purchases, analytics, balance>>

\* existing_watermark = select(PromptWatermark)...first(): any matching row
\* (the query has no ORDER BY); the else branch reuses its token
FullLookup(s) ==
  /\ req[s].pc = "lookup"
  /\ LET r == req[s] IN
       IF WatermarksOf(r.pid, r.user) = {}
         THEN req' = [req EXCEPT ![s].pc = "insert"] /\ UNCHANGED last
         ELSE \E w \in WatermarksOf(r.pid, r.user) :
                /\ last' = Ok([r EXCEPT !.existing = TRUE],
                              r.raw \o watermark(w.token))
                /\ req' = [req EXCEPT ![s] = Idle]
  /\ UNCHANGED <<stripeSecret, payouts, store>>

\* the table after session.add(PromptWatermark(...)); session.commit()
NewWatermark(pid, u, token) ==
  Insert(watermarks, [prompt_id |-> pid, buyer_id |-> u, token |-> token])

\* the insert that answers with a token it did not store
FullInsert_Unstored(s, rnd) ==
  /\ req[s].pc = "insert"
  /\ LET r == req[s]
         token == watermark_token(r.user, rnd)
     IN /\ last' = Ok(r, r.raw \o watermark(token))
        /\ req' = [req EXCEPT ![s] = Idle]
  /\ UNCHANGED <<stripeSecret, payouts, store>>

\* the not-existing branch: token generation, session.add, session.commit
FullInsert(s, rnd) ==
  /\ req[s].pc = "insert"
  /\ LET r == req[s]
         token == watermark_token(r.user, rnd)
     IN /\ watermarks' = NewWatermark(r.pid, r.user, token)
        /\ last' = Ok(r, r.raw \o watermark(token))
        /\ req' = [req EXCEPT ![s] = Idle]
  /\ UNCHANGED <<stripeSecret, payouts, catalog,
                   prompts, purchases, analytics, balance>>

\* the commit failure answered with the content and a token that was not stored
FullInsertFails_Swallowed(s) ==
  /\ req[s].pc = "insert"
  /\ LET r == req[s]
     IN /\ last' = Ok(r, r.raw \o watermark(watermark_token(r.user, 1)))
        /\ req' = [req EXCEPT ![s] = Idle]
  /\ UNCHANGED <<stripeSecret, payouts, store>>

\* session.commit() raises (the store is unavailable): nothing catches the
\* exception, the row is not stored, the return statement is not reached and
\* the framework answers 500 without a body
FullInsertFails(s) ==
  /\ req[s].pc = "insert"
  /\ LET r == req[s]
     IN /\ last' = Fail(r, HTTP_500, "Internal Server Error")
        /\ req' = [req EXCEPT ![s] = Idle]
  /\ UNCHANGED <<stripeSecret, payouts, store>>

\* ------------------------------------------------------ prompts.py get_prompt
\* get_prompt takes no credential.  It is a plain def served on worker
\* threads, each request with a session of its own: the session loads the row,
\* p.views += 1 computes the new value from the loaded one, and the commit
\* writes that value (UPDATE prompt SET views = <value>).
\* p = session.get(Prompt, prompt_id); 404 if there is none; p.views += 1
GetPromptRead(s, pid) ==
  /\ req[s].pc = "idle"
  /\ LET r == [Idle EXCEPT !.op = "get_prompt", !.pid = pid] IN
       IF pid \notin DOMAIN prompts
         THEN last' = Fail(r, HTTP_404, "Not Found") /\ UNCHANGED req
         ELSE /\ prompts[pid].views < MaxViews
              /\ req' = [req EXCEPT ![s] =
                          [r EXCEPT !.pc = "commit", !.raw = prompts[pid].content,
                                    !.views = prompts[pid].views + 1]]
              /\ UNCHANGED last
  /\ UNCHANGED <<stripeSecret, payouts, store>>

\* session.commit() writes the value the session computed; the response
\* carries the row's fields, "content": p.content among them
GetPromptCommit(s) ==
  /\ req[s].op = "get_prompt" /\ req[s].pc = "commit"
  /\ LET r == req[s] IN
       /\ prompts' = [prompts EXCEPT ![r.pid].views = r.views]
       /\ last' = Ok(r, r.raw)
       /\ req' = [req EXCEPT ![s] = Idle]
  /\ UNCHANGED <<stripeSecret, payouts, catalog,
                   purchases, analytics, watermarks, balance>>

get_prompt ==
  \/ \E s \in Slots, pid \in Pids : GetPromptRead(s, pid)
  \/ \E s \in Slots : GetPromptCommit(s)

\* ------------------------------------------ prompts.py check_prompt_ownership
\* {"owns_prompt": p.user_id == user.id}
owns_prompt(u, pid) == prompts[pid].owner_id = u

\* check_prompt_ownership: 401/403 from the dependency, 404 on a missing
\* prompt, else the ownership flag; it issues no write and no commit
check_prompt_ownership(cred, pid) ==
  \E a \in get_current_user(cred) :
    IF ~a.ok
      THEN UNCHANGED vars
    ELSE IF pid \notin DOMAIN prompts
      THEN UNCHANGED vars                     \* 404
    ELSE owns_prompt(a.uid, pid) \in BOOLEAN /\ UNCHANGED vars

get_full_prompt ==
  \/ \E s \in Slots, cred \in Creds, pid \in Pids : FullStart(s, cred, pid)
  \/ \E s \in Slots : FullLookup(s)
  \/ \E s \in Slots, rnd \in Rands : FullInsert(s, rnd)

\* ------------------------------------------------------------ purchases.py
\* the tables after session.add(Purchase(...)) and
\* session.add(Analytics(event_type="purchase")); session.commit()
NewPurchase(u, pid, payment_id) ==
  Insert(purchases,
         [user_id |-> u, prompt_id |-> pid, payment_id |-> payment_id])

NewAnalytics(u, pid, event_type) ==
  Insert(analytics,
         [prompt_id |-> pid, user_id |-> u, event_type |-> event_type])

\* create_checkout: 401/403 from the dependency, 404 on a missing or inactive
\* prompt, the DEV purchase without a payment secret, else a checkout session
\* of the payment provider (no row of this store)
create_checkout(cred, pid) ==
  \E a \in get_current_user(cred) :
    IF ~a.ok
      THEN UNCHANGED vars
    ELSE IF pid \notin DOMAIN prompts \/ ~prompts[pid].is_active
      THEN UNCHANGED vars
    ELSE IF ~stripeSecret
      THEN /\ BagCardinality(purchases) < MaxPurchases
           /\ purchases' = NewPurchase(a.uid, pid, <<"dev_", IdStr[pid]>>)
           /\ analytics' = NewAnalytics(a.uid, pid, "purchase")
           /\ UNCHANGED <<stripeSecret, payouts, catalog,
                   prompts, watermarks, balance, req, last>>
    ELSE UNCHANGED vars

\* The events the provider can sign.  A checkout session carries the user and
\* the prompt create_checkout put in its metadata; create_checkout creates one
\* for any user and any active prompt at any time, and the provider delivers
\* its completion any number of times.
OtherEvent == [type |-> "other", id |-> <<"evt_">>, user_id |-> 0, prompt_id |-> 0]

CompletedEvents ==
  {[type |-> "checkout.session.completed",
    id |-> <<"cs_", IdStr[u], IdStr[pid]>>, user_id |-> u, prompt_id |-> pid] :
     u \in Users, pid \in {q \in DOMAIN prompts : prompts[q].is_active}}

Events == {OtherEvent} \cup CompletedEvents

\* the delivery as the handler sees it: the signature header verifies or
\* not, and the event's type and metadata
Delivery(sigOk, event) ==
  [Idle EXCEPT !.op = "stripe_webhook", !.signed = sigOk, !.type = event.type,
               !.user = event.user_id, !.pid = event.prompt_id]

\* the handler that takes the event without verifying its signature
Webhook_Unverified(sigOk, event, recorded) ==
  LET Answer(response) == IF recorded THEN response ELSE last
      r == Delivery(sigOk, event)
  IN IF stripeSecret /\ event.type = "checkout.session.completed"
       THEN /\ BagCardinality(purchases) < MaxPurchases
            /\ purchases' = NewPurchase(event.user_id, event.prompt_id, event.id)
            /\ analytics' = NewAnalytics(event.user_id, event.prompt_id,
                                         "purchase")
            /\ last' = Answer(Ok(r, <<"ok">>))
            /\ UNCHANGED <<stripeSecret, payouts, catalog,
                           prompts, watermarks, balance, req>>
       ELSE /\ last' = Answer(Ok(r, <<"ok">>))
            /\ UNCHANGED <<stripeSecret, payouts, store, req>>

\* stripe_webhook: ok without a secret, 400 on a bad signature, a Purchase and
\* its Analytics row in one commit on checkout.session.completed, ok
\* otherwise.  recorded tells whether the answer is kept in last.
Webhook(sigOk, event, recorded) ==
  LET Answer(response) == IF recorded THEN response ELSE last
      r == Delivery(sigOk, event)
  IN IF ~stripeSecret
       THEN /\ last' = Answer(Ok(r, <<"ok">>))
            /\ UNCHANGED <<stripeSecret, payouts, store, req>>
     ELSE IF ~sigOk
       THEN /\ last' = Answer(Fail(r, HTTP_400, "Invalid webhook"))
            /\ UNCHANGED <<stripeSecret, payouts, store, req>>
     ELSE IF event.type = "checkout.session.completed"
       THEN /\ BagCardinality(purchases) < MaxPurchases
            /\ purchases' = NewPurchase(event.user_id, event.prompt_id, event.id)
            /\ analytics' = NewAnalytics(event.user_id, event.prompt_id,
                                         "purchase")
            /\ last' = Answer(Ok(r, <<"ok">>))
            /\ UNCHANGED <<stripeSecret, payouts, catalog,
                           prompts, watermarks, balance, req>>
     ELSE /\ last' = Answer(Ok(r, <<"ok">>))
          /\ UNCHANGED <<stripeSecret, payouts, store, req>>

\* the webhook among the other operations: its answer is not looked at
stripe_webhook(sigOk, event) == Webhook(sigOk, event, FALSE)

\* ---------------------------------------------- payments.py confirm_purchase
\* the users who have asked create_payment_intent for an intent: the customer
Payers == {2}

\* The payment intents the provider holds: create_payment_intent creates one
\* with the user id and the prompt id in its metadata for any existing prompt
\* (a user with no purchase yet asks for it), and the customer pays it or not.
Intents ==
  {[id |-> <<"pi_", IdStr[u], IdStr[pid], st>>, user_id |-> u, prompt_id |-> pid,
    amount |-> prompts[pid].price_cents, status |-> st] :
     u \in Payers, pid \in DOMAIN prompts,
     st \in {"succeeded", "requires_payment_method"}}

UnknownIntent == <<"pi_", "x", "x", "none">>

IntentIds == {i.id : i \in Intents} \cup {UnknownIntent}

\* int(payment_intent.amount * 0.85)
SellerShare(amount) == (amount * 85) \div 100

\* the rows confirm_purchase writes: the Purchase, the seller's balance, the
\* prompt's downloads
ConfirmWrites(u, pid, pi) ==
  /\ purchases' = NewPurchase(u, pid, pi.id)
  /\ balance' = [balance EXCEPT ![prompts[pid].owner_id] =
                                  @ + SellerShare(pi.amount)]
  /\ prompts' = [prompts EXCEPT ![pid].downloads = @ + 1]

\* the confirmation without the look for an existing purchase
confirm_purchase_Recredit(cred, payment_intent_id) ==
  \E a \in get_current_user(cred) :
    IF ~a.ok
      THEN UNCHANGED vars
    ELSE IF ~stripeSecret \/ payment_intent_id \notin {i.id : i \in Intents}
      THEN UNCHANGED vars
    ELSE LET pi == CHOOSE i \in Intents : i.id = payment_intent_id
             pid == pi.prompt_id
         IN IF pi.status # "succeeded"
              THEN UNCHANGED vars
            ELSE IF pid \notin DOMAIN prompts
              THEN UNCHANGED vars
            ELSE /\ BagCardinality(purchases) < MaxPurchases
                 /\ ConfirmWrites(a.uid, pid, pi)
                 /\ UNCHANGED <<stripeSecret, payouts, catalog,
                   analytics, watermarks, req, last>>

confirm_purchase(cred, payment_intent_id) ==
  \E a \in get_current_user(cred) :
    IF ~a.ok
      THEN UNCHANGED vars
    ELSE IF ~stripeSecret \/ payment_intent_id \notin {i.id : i \in Intents}
      THEN UNCHANGED vars     \* PaymentIntent.retrieve raises a StripeError: 400
    ELSE LET pi == CHOOSE i \in Intents : i.id = payment_intent_id
             pid == pi.prompt_id
         IN IF pi.status # "succeeded"
              THEN UNCHANGED vars         \* 400 Payment not completed
            ELSE IF pid \notin DOMAIN prompts
              THEN UNCHANGED vars         \* 404 Prompt not found
            ELSE IF PurchasesOf(a.uid, pid) # {}
              THEN UNCHANGED vars         \* Purchase already confirmed
            ELSE /\ BagCardinality(purchases) < MaxPurchases
                 /\ ConfirmWrites(a.uid, pid, pi)
                 /\ UNCHANGED <<stripeSecret, payouts, catalog,
                   analytics, watermarks, req, last>>

\* ------------------------------------------------- payments.py create_payout
\* create_payout is async def, but its user comes from the get_current_user
\* dependency, a plain def the framework runs on a worker thread before the
\* handler body: the body works on the user row as that session loaded it,
\* and other requests run between the load and the body.
\* the amounts asked for: below the minimum, and the minimum (more than the
\* balance of a user who has earned less)
Amounts == {MIN_PAYOUT - 1, MIN_PAYOUT}

\* user = Depends(get_current_user): session.get(User, uid)
PayoutLoad(s, cred, amount_cents) ==
  /\ req[s].pc = "idle"
  /\ \A t \in Slots : t < s => req[t].pc # "idle"
  /\ \E a \in get_current_user(cred) :
       LET r == [Idle EXCEPT !.op = "create_payout", !.cred = cred,
                             !.user = a.uid, !.amount = amount_cents]
       IN IF ~a.ok
            THEN last' = Fail(r, a.status, a.detail) /\ UNCHANGED req
            ELSE /\ req' = [req EXCEPT ![s] =
                             [r EXCEPT !.pc = "run", !.loaded = balance[a.uid]]]
                 /\ UNCHANGED last
  /\ UNCHANGED <<stripeSecret, payouts, store>>

\* the body: the two checks against user.balance_cents, the transfer (which
\* can raise: 400, nothing written), user.balance_cents -= amount_cents and
\* the commit, which writes the value the session computed
PayoutRun(s, transferOk) ==
  /\ req[s].op = "create_payout" /\ req[s].pc = "run"
  /\ LET r == req[s] IN
       /\ req' = [req EXCEPT ![s] = Idle]
       /\ IF r.amount > r.loaded
            THEN /\ last' = Fail(r, HTTP_400, "Insufficient balance")
                 /\ UNCHANGED <<balance, payouts>>
          ELSE IF r.amount < MIN_PAYOUT
            THEN /\ last' = Fail(r, HTTP_400, "Minimum withdrawal amount is $10")
                 /\ UNCHANGED <<balance, payouts>>
          ELSE IF ~transferOk
            THEN /\ last' = Fail(r, HTTP_400, "transfer failed")
                 /\ UNCHANGED <<balance, payouts>>
          ELSE /\ balance' = [balance EXCEPT ![r.user] = r.loaded - r.amount]
               /\ payouts' = [payouts EXCEPT ![r.user] = @ + r.amount]
               /\ last' = Ok(r, <<"Payout initiated successfully">>)
  /\ UNCHANGED <<stripeSecret, catalog, prompts, purchases, analytics,
                 watermarks>>

create_payout ==
  \/ \E s \in Slots, cred \in Creds, amount_cents \in Amounts :
       PayoutLoad(s, cred, amount_cents)
  \/ \E s \in Slots, transferOk \in BOOLEAN : PayoutRun(s, transferOk)

\* -------------------------------------------------- prompts.py create_prompt
PromptPrices == {-5, 0, 500}           \* PromptIn.price_cents: int

\* the rows create_prompt has added to the seeded ones
AddedPrompts == DOMAIN prompts \ PromptIds

\* p = Prompt(**prompt_data, owner_id=user.id); session.add(p);
\* session.commit(): the body is stored as PromptIn parsed it (price_cents is
\* any int).  The requests studied carry no tags, so the tag loop is not
\* entered.
create_prompt(cred, price_cents) ==
  \E a \in get_current_user(cred) :
    LET r == [Idle EXCEPT !.op = "create_prompt", !.cred = cred,
                          !.user = a.uid, !.price = {price_cents}]
        prompt_id == NextId(prompts)
    IN /\ IF ~a.ok
            THEN last' = Fail([Idle EXCEPT !.op = "create_prompt",
                                           !.cred = cred],
                              a.status, a.detail)
                 /\ UNCHANGED prompts
            ELSE /\ Cardinality(AddedPrompts) < MaxPrompts
                 /\ prompts' = prompts @@
                      (prompt_id :>
                         PromptRow(a.uid, <<"N", ZWSP>>, price_cents, TRUE))
                 /\ last' = Ok([r EXCEPT !.pid = prompt_id], <<"id">>)
       /\ UNCHANGED <<stripeSecret, payouts, purchases, analytics, watermarks,
                      balance, catalog, req>>

\* ------------------------------------------------------------- outputs.py
\* The handlers of this file are served one statement after the other on a
\* worker thread; each is a single step here, because what it reads before its
\* commit (the prompt, the purchase rows, the output's author) is changed by no
\* other request.  An Optional value is a set: {} is None, {v} is v.  Of the
\* optional text fields feedback stands for the three the handlers treat alike
\* (feedback, image_url, ai_model).
None == {}
RatingsIn == {None, {0}, {3}, {6}}
FeedbackIn == {None, {"fb"}}
OutputIds == 1..(MaxOutputs + 1)

\* the create_output calls that stored a row so far
OutputEvents ==
  BagCardinality([e \in {x \in BagToSet(analytics) : x.event_type = "output"}
                    |-> analytics[e]])

\* the check that lets any authenticated user in
owns_or_purchased_Anyone(u, pid) == TRUE

\* owns = (prompt.owner_id == user.id); purchased = select(Purchase)...first()
owns_or_purchased(u, pid) ==
  prompts[pid].owner_id = u \/ PurchasesOf(u, pid) # {}

\* the check without its upper limit
valid_rating_NoUpper(rating) == \A n \in rating : n >= 1

\* not (data.rating is not None and (data.rating < 1 or data.rating > 5))
valid_rating(rating) == \A n \in rating : ~(n < 1 \/ n > 5)

\* if data.<field> is not None: output.<field> = data.<field>
Assigned(old, new) == IF new # None THEN new ELSE old

create_output(cred, pid, rating, feedback) ==
  \E a \in get_current_user(cred) :
    LET r == [Idle EXCEPT !.op = "create_output", !.cred = cred,
                          !.user = a.uid, !.pid = pid, !.rating = rating]
    IN /\ IF ~a.ok
            THEN last' = Fail(r, a.status, a.detail)
                 /\ UNCHANGED <<outputs, analytics>>
          ELSE IF pid \notin DOMAIN prompts
            THEN last' = Fail(r, HTTP_404, "Prompt not found")
                 /\ UNCHANGED <<outputs, analytics>>
          ELSE IF ~owns_or_purchased(a.uid, pid)
            THEN last' = Fail(r, HTTP_403,
                              "Must own or purchase prompt to create outputs")
                 /\ UNCHANGED <<outputs, analytics>>
          ELSE IF ~valid_rating(rating)
            THEN last' = Fail(r, HTTP_400, "Rating must be between 1 and 5")
                 /\ UNCHANGED <<outputs, analytics>>
          ELSE /\ OutputEvents < MaxOutputs
               /\ outputs' = outputs @@
                    (NextId(outputs) :>
                       [prompt_id |-> pid, user_id |-> a.uid,
                        rating |-> rating, feedback |-> feedback])
               /\ analytics' = NewAnalytics(a.uid, pid, "output")
               /\ last' = Ok([r EXCEPT !.id = NextId(outputs)],
                             <<"Output created successfully">>)
       /\ UNCHANGED <<stripeSecret, payouts, prompts, purchases, watermarks,
                      balance, bundles, bundle_prompts, req>>

update_output(cred, output_id, rating, feedback) ==
  \E a \in get_current_user(cred) :
    LET r == [Idle EXCEPT !.op = "update_output", !.cred = cred,
                          !.user = a.uid, !.id = output_id,
                          !.rating = rating]
    IN /\ IF ~a.ok
            THEN last' = Fail(r, a.status, a.detail) /\ UNCHANGED outputs
          ELSE IF output_id \notin DOMAIN outputs
            THEN last' = Fail(r, HTTP_404, "Output not found")
                 /\ UNCHANGED outputs
          ELSE IF outputs[output_id].user_id # a.uid
            THEN last' = Fail(r, HTTP_403, "Can only update your own outputs")
                 /\ UNCHANGED outputs
          ELSE IF ~valid_rating(rating)
            THEN last' = Fail(r, HTTP_400, "Rating must be between 1 and 5")
                 /\ UNCHANGED outputs
          ELSE /\ outputs' = [outputs EXCEPT
                                ![output_id].rating = Assigned(@, rating),
                                ![output_id].feedback = Assigned(@, feedback)]
               /\ last' = Ok(r, <<"Output updated successfully">>)
       /\ UNCHANGED <<stripeSecret, payouts, prompts, purchases, analytics,
                      watermarks, balance, bundles, bundle_prompts, req>>

delete_output(cred, output_id) ==
  \E a \in get_current_user(cred) :
    LET r == [Idle EXCEPT !.op = "delete_output", !.cred = cred,
                          !.user = a.uid, !.id = output_id]
    IN /\ IF ~a.ok
            THEN last' = Fail(r, a.status, a.detail) /\ UNCHANGED outputs
          ELSE IF output_id \notin DOMAIN outputs
            THEN last' = Fail(r, HTTP_404, "Output not found")
                 /\ UNCHANGED outputs
          ELSE IF outputs[output_id].user_id # a.uid
            THEN last' = Fail(r, HTTP_403, "Can only delete your own outputs")
                 /\ UNCHANGED outputs
          ELSE /\ outputs' = [k \in DOMAIN outputs \ {output_id} |-> outputs[k]]
               /\ last' = Ok(r, <<"Output deleted successfully">>)
       /\ UNCHANGED <<stripeSecret, payouts, prompts, purchases, analytics,
                      watermarks, balance, bundles, bundle_prompts, req>>

\* ------------------------------------------------------------- bundles.py
\* The handlers of this file are single steps here, with every commit they
\* make inside the step.  title stands for title and description, which the
\* handlers treat alike.
OtherPrompt == 2                       \* the prompt of user 2
NoPrompt == 3                          \* an id with no prompt row
PromptLists == {<<1>>, <<OtherPrompt>>, <<1, 1>>, <<1, NoPrompt>>}
PricesIn == {0, 500}                   \* BundleCreate.price_cents
PriceUpdates == {None, {-1}, {700}}    \* BundleUpdate.price_cents
TitleUpdates == {None, {"t2"}}         \* BundleUpdate.title
ActiveUpdates == {None, {TRUE}}        \* BundleUpdate.is_active
BundleIds == 1..(MaxBundles + 1)

\* a request the bearer dependency refuses: the handler body never runs
Unauthenticated(op, cred) == [Idle EXCEPT !.op = op, !.cred = cred]

\* the value of an Optional that is not None
Value(opt) == CHOOSE v \in opt : TRUE

BundleLinks(bundle_id) == {l \in bundle_prompts : l.bundle_id = bundle_id}

\* the loop without the ownership check
VerifyPrompts_ExistenceOnly(prompt_ids, u) ==
  IF \E i \in 1..Len(prompt_ids) : prompt_ids[i] \notin DOMAIN prompts
    THEN HTTP_404
  ELSE 0

\* for prompt_id in data.prompt_ids: 404 if there is no such prompt, 403 if
\* it is not the user's; 0 when the loop ends without raising
RECURSIVE VerifyPrompts(_, _)
VerifyPrompts(prompt_ids, u) ==
  IF prompt_ids = << >> THEN 0
  ELSE IF Head(prompt_ids) \notin DOMAIN prompts THEN HTTP_404
  ELSE IF prompts[Head(prompt_ids)].owner_id # u THEN HTTP_403
  ELSE VerifyPrompts(Tail(prompt_ids), u)

\* two BundlePrompt rows of one bundle with the same prompt_id: the composite
\* primary key rejects the second at the commit
RepeatsId(prompt_ids) ==
  \E i, j \in 1..Len(prompt_ids) : i < j /\ prompt_ids[i] = prompt_ids[j]

\* the row after a request that raised with its changes flushed
rollback_Flushed(stored, pending) == pending

\* the handler raises before session.commit(): the changes made to the loaded
\* object are lost with the request's session and the row stays as stored
rollback(stored, pending) == stored

create_bundle(cred, price_cents, prompt_ids) ==
  \E a \in get_current_user(cred) :
    LET r == [Idle EXCEPT !.op = "create_bundle", !.cred = cred,
                          !.user = a.uid, !.price = {price_cents},
                          !.ids = prompt_ids]
        v == VerifyPrompts(prompt_ids, a.uid)
        bundle_id == NextId(bundles)
    IN /\ IF ~a.ok
            THEN last' = Fail(Unauthenticated("create_bundle", cred),
                              a.status, a.detail)
                 /\ UNCHANGED <<bundles, bundle_prompts>>
          ELSE IF price_cents <= 0
            THEN last' = Fail(r, HTTP_400, "Price must be greater than 0")
                 /\ UNCHANGED <<bundles, bundle_prompts>>
          ELSE IF v = HTTP_404
            THEN last' = Fail(r, HTTP_404, "Prompt not found")
                 /\ UNCHANGED <<bundles, bundle_prompts>>
          ELSE IF v = HTTP_403
            THEN last' = Fail(r, HTTP_403, "Prompt does not belong to you")
                 /\ UNCHANGED <<bundles, bundle_prompts>>
          ELSE /\ Cardinality(DOMAIN bundles) < MaxBundles
               \* session.add(bundle); session.commit()
               /\ bundles' = bundles @@
                    (bundle_id :> [name |-> "t1", price_cents |-> price_cents,
                                   owner_id |-> a.uid, is_active |-> TRUE])
               \* session.add(bundle_prompt) for each id; session.commit()
               /\ IF RepeatsId(prompt_ids)
                    THEN /\ UNCHANGED bundle_prompts
                         /\ last' = Fail([r EXCEPT !.id = bundle_id], HTTP_500,
                                         "Internal Server Error")
                    ELSE /\ bundle_prompts' = bundle_prompts \cup
                              {[bundle_id |-> bundle_id,
                                prompt_id |-> prompt_ids[i]] :
                                 i \in 1..Len(prompt_ids)}
                         /\ last' = Ok([r EXCEPT !.id = bundle_id],
                                       <<"Bundle created successfully">>)
       /\ UNCHANGED <<stripeSecret, payouts, prompts, purchases, analytics,
                      watermarks, balance, outputs, req>>

update_bundle(cred, bundle_id, title, price, is_active) ==
  \E a \in get_current_user(cred) :
    LET r == [Idle EXCEPT !.op = "update_bundle", !.cred = cred,
                          !.user = a.uid, !.id = bundle_id,
                          !.title = title, !.price = price]
    IN /\ IF ~a.ok
            THEN last' = Fail(Unauthenticated("update_bundle", cred),
                              a.status, a.detail)
                 /\ UNCHANGED bundles
          ELSE IF bundle_id \notin DOMAIN bundles
            THEN last' = Fail(r, HTTP_404, "Bundle not found")
                 /\ UNCHANGED bundles
          ELSE IF bundles[bundle_id].owner_id # a.uid
            THEN last' = Fail(r, HTTP_403, "Only bundle owner can update")
                 /\ UNCHANGED bundles
          ELSE LET stored == bundles[bundle_id]
                   \* bundle.name = data.title (and the description)
                   pending == [stored EXCEPT !.name =
                                 IF title # None THEN Value(title) ELSE @]
               IN IF price # None /\ Value(price) <= 0
                    THEN /\ bundles' = [bundles EXCEPT
                                          ![bundle_id] = rollback(stored, pending)]
                         /\ last' = Fail(r, HTTP_400,
                                         "Price must be greater than 0")
                    ELSE /\ bundles' = [bundles EXCEPT ![bundle_id] =
                              [pending EXCEPT
                                 !.price_cents =
                                   IF price # None THEN Value(price) ELSE @,
                                 !.is_active =
                                   IF is_active # None THEN Value(is_active)
                                   ELSE @]]
                         /\ last' = Ok(r, <<"Bundle updated successfully">>)
       /\ UNCHANGED <<stripeSecret, payouts, prompts, purchases, analytics,
                      watermarks, balance, outputs, bundle_prompts, req>>

\* The owner's call goes on to session.exec(select(BundlePrompt)...).delete():
\* where the result of exec has no delete() the call raises and nothing is
\* deleted; where it has, the links and then the bundle are deleted.
delete_bundle(cred, bundle_id) ==
  \E a \in get_current_user(cred) :
    LET r == [Idle EXCEPT !.op = "delete_bundle", !.cred = cred,
                          !.user = a.uid, !.id = bundle_id]
    IN /\ IF ~a.ok
            THEN last' = Fail(Unauthenticated("delete_bundle", cred),
                              a.status, a.detail)
                 /\ UNCHANGED <<bundles, bundle_prompts>>
          ELSE IF bundle_id \notin DOMAIN bundles
            THEN last' = Fail(r, HTTP_404, "Bundle not found")
                 /\ UNCHANGED <<bundles, bundle_prompts>>
          ELSE IF bundles[bundle_id].owner_id # a.uid
            THEN last' = Fail(r, HTTP_403, "Only bundle owner can delete")
                 /\ UNCHANGED <<bundles, bundle_prompts>>
          ELSE \/ /\ last' = Fail(r, HTTP_500, "Internal Server Error")
                  /\ UNCHANGED <<bundles, bundle_prompts>>
               \/ /\ bundle_prompts' = bundle_prompts \ BundleLinks(bundle_id)
                  /\ bundles' = [k \in DOMAIN bundles \ {bundle_id}
                                   |-> bundles[k]]
                  /\ last' = Ok(r, <<"Bundle deleted successfully">>)
       /\ UNCHANGED <<stripeSecret, payouts, prompts, purchases, analytics,
                      watermarks, balance, outputs, req>>

\* ------------------------------------------------------------ initial state
\* The store after start-up: the users, one prompt of user 1 whose active
\* flag is either value, no purchase and no watermark yet.
Init ==
  /\ stripeSecret \in BOOLEAN
  /\ \E act \in BOOLEAN :
       prompts = (1 :> PromptRow(1, <<"S", "E", ZWSP>>, 500, act))
  /\ purchases = EmptyBag
  /\ analytics = EmptyBag
  /\ watermarks = EmptyBag
  /\ balance = [u \in Users |-> 0]
  /\ outputs = << >>
  /\ bundles = << >>
  /\ bundle_prompts = {}
  /\ payouts = [u \in Users |-> 0]
  /\ req = [s \in Slots |-> Idle]
  /\ last = Idle

Next ==
  \/ get_full_prompt
  \/ \E cred \in Creds, pid \in Pids : create_checkout(cred, pid)
  \/ \E sigOk \in BOOLEAN, event \in Events : stripe_webhook(sigOk, event)
  \/ \E cred \in Creds, id \in IntentIds : confirm_purchase(cred, id)
  \/ \E cred \in Creds, pid \in Pids : check_prompt_ownership(cred, pid)

Spec == Init /\ [][Next]_vars

\* ------------------------------------------------- non-overlapping requests
\* no get_full_prompt request is between two of its database statements
Quiet == \A s \in Slots : req[s].pc \notin {"lookup", "insert"}

\* the same operations, each starting only after the previous one has ended
NextSeq ==
  \/ /\ Quiet
     /\ \/ \E s \in Slots, cred \in Creds, pid \in Pids : FullStart(s, cred, pid)
        \/ \E cred \in Creds, pid \in Pids : create_checkout(cred, pid)
        \/ \E sigOk \in BOOLEAN, event \in Events : stripe_webhook(sigOk, event)
        \/ \E cred \in Creds, id \in IntentIds : confirm_purchase(cred, id)
        \/ \E cred \in Creds, pid \in Pids : check_prompt_ownership(cred, pid)
  \/ \E s \in Slots : FullLookup(s)
  \/ \E s \in Slots, rnd \in Rands : FullInsert(s, rnd)

SpecSeq == Init /\ [][NextSeq]_vars

\* ----------------------------------------------------- the public detail read
\* the get_prompt requests alone, overlapping freely
NextViews == get_prompt

SpecViews == Init /\ [][NextViews]_vars

\* ------------------------------------------------- earnings and withdrawals
\* what a seller has earned before the requests studied here: user 1 holds
\* twice the minimum withdrawal
SeedBalance(u) == IF u = 1 THEN 2 * MIN_PAYOUT ELSE 0

InitPayout ==
  /\ stripeSecret \in BOOLEAN
  /\ \E act \in BOOLEAN :
       prompts = (1 :> PromptRow(1, <<"S", "E", ZWSP>>, 500, act))
  /\ purchases = EmptyBag
  /\ analytics = EmptyBag
  /\ watermarks = EmptyBag
  /\ balance = [u \in Users |-> SeedBalance(u)]
  /\ outputs = << >>
  /\ bundles = << >>
  /\ bundle_prompts = {}
  /\ payouts = [u \in Users |-> 0]
  /\ req = [s \in Slots |-> Idle]
  /\ last = Idle

\* the withdrawals and the confirmations that credit the seller, overlapping
NextPayout ==
  \/ create_payout
  \/ \E cred \in Creds, id \in IntentIds : confirm_purchase(cred, id)

SpecPayout == InitPayout /\ [][NextPayout]_vars

\* ------------------------------------------------------- two buyers, one prompt
\* A store in which both users hold a DEV purchase of a prompt of a third
\* seller, who sends no request here.
OtherSeller == 3

InitTokens ==
  /\ stripeSecret = FALSE
  /\ prompts = (1 :> PromptRow(OtherSeller, <<"S", "E", ZWSP>>, 500, TRUE))
  /\ purchases = SetToBag({[user_id |-> u, prompt_id |-> 1,
                            payment_id |-> <<"dev_", IdStr[1]>>] : u \in Users})
  /\ analytics = SetToBag({[prompt_id |-> 1, user_id |-> u,
                            event_type |-> "purchase"] : u \in Users})
  /\ watermarks = EmptyBag
  /\ balance = [u \in Users |-> 0]
  /\ outputs = << >>
  /\ bundles = << >>
  /\ bundle_prompts = {}
  /\ payouts = [u \in Users |-> 0]
  /\ req = [s \in Slots |-> Idle]
  /\ last = Idle

\* the full reads of the two buyers, overlapping freely
NextTokens == get_full_prompt

SpecTokens == InitTokens /\ [][NextTokens]_vars

\* ------------------------------------------------------- the outputs routes
\* A store without a payment secret in which any set of users holds the DEV
\* purchase of user 1's prompt that create_checkout records.
InitOutputs ==
  /\ stripeSecret = FALSE
  /\ prompts = (1 :> PromptRow(1, <<"S", "E", ZWSP>>, 500, TRUE))
  /\ \E buyers \in SUBSET Users :
       /\ purchases = SetToBag({[user_id |-> u, prompt_id |-> 1,
                                 payment_id |-> <<"dev_", IdStr[1]>>] :
                                   u \in buyers})
       /\ analytics = SetToBag({[prompt_id |-> 1, user_id |-> u,
                                 event_type |-> "purchase"] : u \in buyers})
  /\ watermarks = EmptyBag
  /\ balance = [u \in Users |-> 0]
  /\ outputs = << >>
  /\ bundles = << >>
  /\ bundle_prompts = {}
  /\ payouts = [u \in Users |-> 0]
  /\ req = [s \in Slots |-> Idle]
  /\ last = Idle

NextOutputs ==
  \/ \E cred \in Creds, pid \in Pids, rating \in RatingsIn,
        feedback \in FeedbackIn : create_output(cred, pid, rating, feedback)
  \/ \E cred \in Creds, output_id \in OutputIds, rating \in RatingsIn,
        feedback \in FeedbackIn :
          update_output(cred, output_id, rating, feedback)
  \/ \E cred \in Creds, output_id \in OutputIds : delete_output(cred, output_id)

SpecOutputs == InitOutputs /\ [][NextOutputs]_vars

\* ------------------------------------------------------- the bundles routes
\* A store in which each user has one prompt.
InitBundles ==
  /\ stripeSecret = FALSE
  /\ prompts = (1 :> PromptRow(1, <<"S", "E", ZWSP>>, 500, TRUE))
                 @@ (OtherPrompt :> PromptRow(2, <<"T", ZWSP>>, 300, TRUE))
  /\ purchases = EmptyBag
  /\ analytics = EmptyBag
  /\ watermarks = EmptyBag
  /\ balance = [u \in Users |-> 0]
  /\ outputs = << >>
  /\ bundles = << >>
  /\ bundle_prompts = {}
  /\ payouts = [u \in Users |-> 0]
  /\ req = [s \in Slots |-> Idle]
  /\ last = Idle

NextBundles ==
  \/ \E cred \in Creds, price_cents \in PricesIn, prompt_ids \in PromptLists :
       create_bundle(cred, price_cents, prompt_ids)
  \/ \E cred \in Creds, bundle_id \in BundleIds, title \in TitleUpdates,
        price \in PriceUpdates, is_active \in ActiveUpdates :
          update_bundle(cred, bundle_id, title, price, is_active)
  \/ \E cred \in Creds, bundle_id \in BundleIds : delete_bundle(cred, bundle_id)

SpecBundles == InitBundles /\ [][NextBundles]_vars

\* ------------------------------------------------------------ new listings
NextPrompts ==
  \E cred \in Creds, price_cents \in PromptPrices : create_prompt(cred, price_cents)

SpecPrompts == Init /\ [][NextPrompts]_vars

\* ------------------------------------------------- the ways to a purchase
\* the webhook deliveries with their answers, among the checkouts and the
\* payment confirmations
NextWebhook ==
  \/ \E sigOk \in BOOLEAN, event \in Events : Webhook(sigOk, event, TRUE)
  \/ \E cred \in Creds, pid \in Pids : create_checkout(cred, pid)
  \/ \E cred \in Creds, id \in IntentIds : confirm_purchase(cred, id)

SpecWebhook == Init /\ [][NextWebhook]_vars

\* ------------------------------------------------------ a store that can fail
\* the same operations with a store whose commit of the watermark row can raise
NextFail ==
  \/ Next
  \/ \E s \in Slots : FullInsertFails(s)

SpecFail == Init /\ [][NextFail]_vars

\* ------------------------------------------------------------------ claims
\* the rows of the watermark table for a (prompt, buyer) pair
RecordsFor(pid, u) ==
  [w \in {x \in BagToSet(watermarks) : x.prompt_id = pid /\ x.buyer_id = u}
     |-> watermarks[w]]

\* the rows of the purchase table for a (user, prompt) pair
GrantsFor(u, pid) ==
  [g \in {x \in BagToSet(purchases) : x.user_id = u /\ x.prompt_id = pid}
     |-> purchases[g]]

\* r is a response that carries content past the stored content of its prompt
Marked(r) ==
  /\ r.pc = "done" /\ r.hasBody /\ r.pid \in DOMAIN prompts
  /\ Len(r.body) > Len(prompts[r.pid].content)

\* the token a marked response carries: what stands between the zero-width
\* character after the stored content and the closing one
TokenIn(r) == SubSeq(r.body, Len(prompts[r.pid].content) + 2, Len(r.body) - 1)

SamePair(r, q) == r.user = q.user /\ r.pid = q.pid

\* a request leaves slot s with its response
Returns(s) == req[s].pc \in {"lookup", "insert"} /\ req'[s].pc = "idle"

\* C1: when several get_full_prompt requests of one purchaser for one prompt
\* overlap, every interleaving of their lookups and inserts leaves exactly one
\* watermark row for the pair and all of them return the same token.
C1_ConcurrentFirstReadsConverge ==
  /\ [](\A pid \in PromptIds, u \in Users : BagCardinality(RecordsFor(pid, u)) <= 1)
  /\ [][ Marked(last) /\ Marked(last') /\ SamePair(last, last')
           => TokenIn(last') = TokenIn(last) ]_vars

C3_WatermarkStable ==
  [][\A w \in BagToSet(watermarks) :
       CopiesIn(w, watermarks') >= CopiesIn(w, watermarks)]_vars

C3_Witness ==
  /\ BagCardinality(watermarks) >= 2
  /\ BagCardinality(purchases) >= 2

\* C4: there is at most one purchase row per (user, prompt) pair: a repeated
\* payment confirmation creates no second row.
C4_OnePurchasePerPair ==
  \A u \in Users, pid \in PromptIds : BagCardinality(GrantsFor(u, pid)) <= 1

\* C5: the owner of an existing prompt gets exactly the stored content, with no
\* watermark, and the request writes no watermark row: it never reaches the
\* watermark path and no row names the owner as buyer.
C5_OwnerGetsRawContent ==
  /\ last.pc = "done" /\ last.user \in Users /\ last.pid \in DOMAIN prompts
       /\ prompts[last.pid].owner_id = last.user
       => /\ last.status = HTTP_200
          /\ last.hasBody
          /\ last.body = prompts[last.pid].content
  /\ \A s \in Slots :
       req[s].pc # "idle" => prompts[req[s].pid].owner_id # req[s].user
  /\ \A w \in BagToSet(watermarks) : prompts[w.prompt_id].owner_id # w.buyer_id

C5_Witness ==
  /\ last.pc = "done" /\ last.user = 1 /\ last.pid = 1
  /\ last.status = HTTP_200
  /\ GrantsFor(1, 1) # EmptyBag
  /\ watermarks # EmptyBag

C7_UnentitledForbidden ==
  [][ \A s \in Slots, u \in Users, pid \in PromptIds :
        /\ FullStart(s, Bearer(u), pid)
        /\ prompts[pid].owner_id # u
        /\ GrantsFor(u, pid) = EmptyBag
        => /\ last'.pc = "done"
           /\ last'.user = u /\ last'.pid = pid
           /\ last'.status = HTTP_403
           /\ last'.detail = "Purchase required"
           /\ ~last'.hasBody
           /\ req' = req
    ]_vars

C7_Witness ==
  /\ last.pc = "done" /\ last.user = 2 /\ last.pid = 1
  /\ last.status = HTTP_403 /\ last.detail = "Purchase required"
  /\ ~last.hasBody

\* C8: a request with no credential for an existing prompt is refused as
\* Forbidden, with the outcome of an authenticated user with no entitlement:
\* 403 "Purchase required".
C8_AnonymousForbidden ==
  last.pc = "done" /\ last.cred = NoCred /\ last.pid \in DOMAIN prompts
    => last.status = HTTP_403 /\ last.detail = "Purchase required"

\* C9: a request for a prompt id with no row is answered 404, whoever asks.
C9_MissingPromptNotFound ==
  last.pc = "done" /\ last.pid \notin DOMAIN prompts
    => last.status = HTTP_404

\* C10: a request for a prompt whose active flag is false is answered 404,
\* whoever asks, and no watermark row is written for it.
C10_InactivePromptNotFound ==
  /\ last.pc = "done" /\ last.pid \in DOMAIN prompts
       /\ ~prompts[last.pid].is_active
       => last.status = HTTP_404
  /\ \A w \in BagToSet(watermarks) : prompts[w.prompt_id].is_active

\* C11: every watermark row names a buyer who holds a purchase of the prompt
\* and is not its owner; a row is only ever added by the insert of a request
\* whose own lookup found no row for the pair, and it is a row for that pair.
C11_RecordOnlyForFirstPurchaserRead ==
  /\ [](\A w \in BagToSet(watermarks) :
          /\ GrantsFor(w.buyer_id, w.prompt_id) # EmptyBag
          /\ prompts[w.prompt_id].owner_id # w.buyer_id)
  /\ [][ /\ \A s \in Slots :
              req[s].pc = "lookup" /\ req'[s].pc = "insert"
                => RecordsFor(req[s].pid, req[s].user) = EmptyBag
         /\ watermarks' # watermarks
              => \E s \in Slots, rnd \in Rands :
                   /\ req[s].pc = "insert" /\ req'[s].pc = "idle"
                   /\ watermarks' = watermarks (+) SetToBag(
                        {[prompt_id |-> req[s].pid, buyer_id |-> req[s].user,
                          token |-> watermark_token(req[s].user, rnd)]}) ]_vars

C11_Witness ==
  /\ Marked(last) /\ ~last.existing /\ last.user = 2
  /\ \E w \in BagToSet(watermarks) :
       /\ w.prompt_id = last.pid /\ w.buyer_id = 2 /\ w.token = TokenIn(last)
       /\ GrantsFor(2, w.prompt_id) # EmptyBag

\* C12: when the commit of the watermark row raises during a purchaser's first
\* read, the call fails: its response carries no content at all, the table is
\* unchanged, and every token a response carries is the token of a stored row
\* of the pair (a buyer never gets content without a marker).
C12_CommitFailureFailsCall ==
  /\ [](Marked(last) =>
          \E w \in BagToSet(watermarks) :
            /\ w.prompt_id = last.pid /\ w.buyer_id = last.user
            /\ w.token = TokenIn(last))
  /\ [](/\ last.pc = "done" /\ last.hasBody /\ last.pid \in DOMAIN prompts
         /\ prompts[last.pid].owner_id # last.user
         => Marked(last))
  /\ [][ \A s \in Slots :
           req[s].pc = "insert" /\ req'[s].pc = "idle" /\ watermarks' = watermarks
             => /\ last'.user = req[s].user /\ last'.pid = req[s].pid
                /\ last'.status = HTTP_500
                /\ ~last'.hasBody /\ last'.body = NoBody ]_vars

C12_Witness ==
  /\ last.pc = "done" /\ last.status = HTTP_500 /\ ~last.hasBody
  /\ last.user = 2 /\ last.pid = 1
  /\ GrantsFor(2, 1) # EmptyBag
  /\ watermarks = EmptyBag

\* C13: every response of get_full_prompt is one of three outcomes: 200 with
\* content, 404 without content, or 403 without content; no other status is
\* ever answered, whoever asks and whatever the store holds.
C13_ThreeOutcomesOnly ==
  last.pc = "done"
    => \/ last.status = HTTP_200 /\ last.hasBody
       \/ last.status = HTTP_404 /\ ~last.hasBody
       \/ last.status = HTTP_403 /\ ~last.hasBody

\* C14: a get_full_prompt call of a purchaser that finds a watermark row of
\* its pair writes nothing: the step that starts a call and the lookup that
\* finds a row leave every table unchanged, and that lookup ends the call with
\* the stored token, so the call never reaches the insert.
C14_RepeatReadWritesNothing ==
  [][ /\ (\E s \in Slots : req[s].pc = "idle" /\ req'[s].pc = "lookup")
           => store' = store
      /\ \A s \in Slots :
           /\ req[s].pc = "lookup" /\ req'[s] # req[s]
           /\ RecordsFor(req[s].pid, req[s].user) # EmptyBag
           => /\ store' = store
              /\ req'[s].pc = "idle"
              /\ last'.existing /\ Marked(last') /\ SamePair(last', req[s])
    ]_vars

C14_Witness ==
  /\ last.pc = "done" /\ last.existing /\ last.status = HTTP_200
  /\ last.user = 2 /\ last.pid = 1
  /\ BagCardinality(RecordsFor(1, 2)) = 1
  /\ BagCardinality(GrantsFor(2, 1)) = 1

\* the access decision as a function of the tables and the requester alone
Decision(u, pid) ==
  IF pid \notin DOMAIN prompts THEN "NotFound"
  ELSE IF prompts[pid].owner_id = u \/ GrantsFor(u, pid) # EmptyBag THEN "Granted"
  ELSE "Forbidden"

\* C15: the access decision writes nothing and is a function of the tables and
\* the requester: the deciding step of get_full_prompt (the step that answers
\* a request at once or sends it on to the lookup) and every
\* check_prompt_ownership call leave every table unchanged, and the outcome of
\* the deciding step for user u and prompt pid is the one Decision(u, pid)
\* names, whatever was answered before and whatever else is in service.
C15_DecisionIsPure ==
  [][ /\ \/ store' = store
         \/ ~ \/ \E s \in Slots : req[s].pc = "idle" /\ req'[s].pc # "idle"
              \/ req' = req /\ last' # last
              \/ \E cred \in Creds, pid \in Pids :
                   check_prompt_ownership(cred, pid)
      /\ \A s \in Slots, u \in Users, pid \in Pids :
           ( /\ req[s].pc = "idle"
             /\ \/ req' = req /\ last'.user = u /\ last'.pid = pid
                \/ req'[s].user = u /\ req'[s].pid = pid
             /\ FullStart(s, Bearer(u), pid) )
             => LET d == Decision(u, pid) IN
                /\ d = "NotFound"
                     => /\ last'.status = HTTP_404 /\ ~last'.hasBody
                        /\ last'.user = u /\ last'.pid = pid /\ req' = req
                /\ d = "Forbidden"
                     => /\ last'.status = HTTP_403 /\ ~last'.hasBody
                        /\ last'.user = u /\ last'.pid = pid /\ req' = req
                /\ d = "Granted"
                     => \/ /\ last'.status = HTTP_200 /\ last'.hasBody
                           /\ last'.user = u /\ last'.pid = pid /\ req' = req
                        \/ /\ req'[s].pc = "lookup" /\ last' = last
                           /\ req'[s].user = u /\ req'[s].pid = pid
    ]_vars

C15_Witness ==
  /\ last.pc = "done" /\ last.status = HTTP_404 /\ last.user = 2
  /\ last.pid = MissingPid
  /\ purchases # EmptyBag /\ watermarks # EmptyBag

\* C16: no view increment is lost: every get_prompt call that completes on an
\* existing prompt leaves the views counter one above the value it had just
\* before the call's commit, whatever other calls did in between (so N
\* completed calls add N); a call on a missing prompt is answered 404 and
\* changes no counter.
C16_NoLostViewIncrement ==
  [][ /\ \A s \in Slots :
           req[s].op = "get_prompt" /\ req[s].pc = "commit" /\ req'[s].pc = "idle"
             => prompts'[req[s].pid].views = prompts[req[s].pid].views + 1
      /\ last' # last /\ last'.status = HTTP_404 => prompts' = prompts
    ]_vars

\* C17: no response carries a prompt's content to a requester who neither
\* owns the prompt nor holds a purchase of it; the unauthenticated get_prompt
\* in particular releases no content.
C17_NoContentWithoutEntitlement ==
  last.pc = "done" /\ last.hasBody /\ last.pid \in DOMAIN prompts
    => /\ last.user \in Users
       /\ \/ prompts[last.pid].owner_id = last.user
          \/ GrantsFor(last.user, last.pid) # EmptyBag

\* C18: ownership takes precedence over purchase: a get_full_prompt call of
\* the owner who also holds a purchase of the prompt is answered at once with
\* the stored content, unmarked, enters no watermark step and writes nothing;
\* no watermark row ever has the prompt's owner as buyer.
C18_OwnershipBeforePurchase ==
  /\ [](\A pid \in PromptIds :
          RecordsFor(pid, prompts[pid].owner_id) = EmptyBag)
  /\ [][ \A s \in Slots, pid \in PromptIds :
           LET u == prompts[pid].owner_id IN
           ( /\ req[s].pc = "idle"
             /\ GrantsFor(u, pid) # EmptyBag
             /\ FullStart(s, Bearer(u), pid) )
             => /\ req' = req
                /\ store' = store
                /\ last'.user = u /\ last'.pid = pid
                /\ last'.status = HTTP_200 /\ last'.hasBody
                /\ last'.body = prompts[pid].content
                /\ ~Marked(last') ]_vars

C18_Witness ==
  /\ last.pc = "done" /\ last.owns /\ last.bought
  /\ last.body = prompts[last.pid].content
  /\ BagCardinality(GrantsFor(last.user, last.pid)) = 2

\* the purchase rows of a prompt that confirm_purchase wrote: those whose
\* payment identifier is a payment intent's
ConfirmedRows(pid) ==
  [g \in {x \in BagToSet(purchases) :
            x.prompt_id = pid /\ x.payment_id \in {i.id : i \in Intents}}
     |-> purchases[g]]

C20_IntentGrantsOnlyItsPayer ==
  \A i \in Intents :
    LET rows == [g \in {x \in BagToSet(purchases) : x.payment_id = i.id}
                   |-> purchases[g]]
    IN /\ \A g \in BagToSet(rows) : g.user_id = i.user_id
       /\ BagCardinality(rows) <= 1

\* what a user has been credited: the earnings held at the start and one
\* seller share per confirmed purchase of a prompt of theirs
Credited(u) ==
  SeedBalance(u)
    + IF \E pid \in PromptIds : prompts[pid].owner_id = u
        THEN LET pid == CHOOSE q \in PromptIds : prompts[q].owner_id = u
             IN BagCardinality(ConfirmedRows(pid))
                  * SellerShare(prompts[pid].price_cents)
        ELSE 0

\* C21: payouts never exceed earnings: every balance is non-negative and what
\* a user has been paid out is at most what they were credited, in every
\* interleaving of create_payout and confirm_purchase; a request above the
\* balance or below the minimum, or whose transfer raises, is answered 400
\* and leaves the balance unchanged.
C21_PayoutsWithinEarnings ==
  /\ [](\A u \in Users : balance[u] >= 0 /\ payouts[u] <= Credited(u))
  /\ [][ last' # last /\ last'.op = "create_payout" /\ last'.status = HTTP_400
           => balance' = balance /\ payouts' = payouts ]_vars

\* the tokens stored for a (prompt, buyer) pair
TokensOf(pid, u) == {w.token : w \in WatermarksOf(pid, u)}

\* C22: every token a get_full_prompt response carries to buyer U for prompt P
\* is, when the response is given and ever after, the token of a stored
\* watermark row of (P, U): this holds for the response of every request,
\* also when first reads of the pair overlap and each stores a row of its own.
C22_ReturnedTokenIsPersisted ==
  /\ [](Marked(last) => TokenIn(last) \in TokensOf(last.pid, last.user))
  /\ [][ /\ \A s \in Slots :
              Returns(s) /\ last'.hasBody
                => /\ SamePair(last', req[s])
                   /\ \E w \in BagToSet(watermarks') :
                        /\ w.prompt_id = req[s].pid /\ w.buyer_id = req[s].user
                        /\ w.token = TokenIn(last')
         /\ \A pid \in PromptIds, u \in Users :
              TokensOf(pid, u) \subseteq TokensOf(pid, u)' ]_vars

C22_Witness ==
  /\ Marked(last) /\ ~last.existing /\ last.user = 2 /\ last.pid = 1
  /\ TokenIn(last) \in TokensOf(1, 2)
  /\ \E s \in Slots : req[s].pc = "insert" /\ SamePair(req[s], last)

\* the string a token is: its four pieces one after the other
TokenStr(t) == t[1] \o t[2] \o t[3] \o t[4]

\* C23: the token carries its buyer's id: two watermark rows with different
\* buyers never carry the same token string, whatever random parts were
\* drawn, and the id between "PM_" and the last "_" of a row's token is the
\* row's buyer's.
C23_TokenNamesItsBuyer ==
  \A w, x \in BagToSet(watermarks) :
    /\ w.buyer_id # x.buyer_id => TokenStr(w.token) # TokenStr(x.token)
    /\ \E rnd \in Rands :
         TokenStr(w.token) = "PM_" \o IdStr[w.buyer_id] \o "_" \o Hex8[rnd]

C23_Witness ==
  \E w, x \in BagToSet(watermarks) :
    /\ w.buyer_id # x.buyer_id
    /\ w.prompt_id = x.prompt_id
    /\ w.token[4] = x.token[4]

\* a price_cents that is not positive
NotPositive(price) == \E n \in price : n <= 0

\* C25: every stored bundle has a positive price; a create_bundle or
\* update_bundle call whose price is zero or negative never succeeds, is
\* answered 400 when the caller is otherwise allowed to make it, and leaves
\* the bundles and their links as they were: an update_bundle call that
\* carries a new title with such a price changes no field of the bundle.
C25_BundlePricePositive ==
  /\ [](\A k \in DOMAIN bundles : bundles[k].price_cents > 0)
  /\ [](last.op \in {"create_bundle", "update_bundle"} /\ NotPositive(last.price)
         => /\ last.status # HTTP_200
            /\ last.op = "create_bundle" => last.status = HTTP_400)
  /\ [][ last'.op \in {"create_bundle", "update_bundle"}
           /\ NotPositive(last'.price)
         => /\ bundles' = bundles /\ bundle_prompts' = bundle_prompts
            /\ ( /\ last'.op = "update_bundle" /\ last'.id \in DOMAIN bundles
                 /\ bundles[last'.id].owner_id = last'.user )
                 => last'.status = HTTP_400 ]_vars

C25_Witness ==
  /\ last.op = "update_bundle" /\ last.status = HTTP_400
  /\ last.title = {"t2"} /\ NotPositive(last.price)
  /\ last.id \in DOMAIN bundles
  /\ bundles[last.id].owner_id = last.user
  /\ bundles[last.id].name = "t1"

\* a rating outside 1..5
OutOfRange(rating) == \E n \in rating : n < 1 \/ n > 5

\* C24: every stored output's rating is either absent or between 1 and 5
\* after any sequence of create_output and update_output calls; a call with a
\* rating below 1 or above 5 changes neither the outputs nor the analytics
\* (no other field of the same update is stored) and, when it comes from a
\* user allowed to make it, is answered 400.
C24_RatingInRange ==
  /\ [](\A k \in DOMAIN outputs :
          \A n \in outputs[k].rating : n \in 1..5)
  /\ [](/\ last.op \in {"create_output", "update_output"}
         /\ OutOfRange(last.rating)
         => /\ last.status # HTTP_200
            /\ ( /\ last.op = "create_output" /\ last.user \in Users
                 /\ last.pid \in DOMAIN prompts
                 /\ \/ prompts[last.pid].owner_id = last.user
                    \/ GrantsFor(last.user, last.pid) # EmptyBag )
                 => last.status = HTTP_400)
  /\ [][ /\ last'.op \in {"create_output", "update_output"}
         /\ OutOfRange(last'.rating)
         => /\ outputs' = outputs /\ analytics' = analytics
            /\ ( /\ last'.op = "update_output" /\ last'.id \in DOMAIN outputs
                 /\ outputs[last'.id].user_id = last'.user )
                 => last'.status = HTTP_400 ]_vars

C24_Witness ==
  /\ last.op = "update_output" /\ last.status = HTTP_400
  /\ last.id \in DOMAIN outputs
  /\ outputs[last.id].user_id = last.user
  /\ outputs[last.id].rating = {3}
  /\ outputs[last.id].feedback = None

\* user u owns prompt pid or holds a purchase of it
Entitled(u, pid) ==
  /\ pid \in DOMAIN prompts
  /\ prompts[pid].owner_id = u \/ GrantsFor(u, pid) # EmptyBag

\* C27: the author of every stored output owns the output's prompt or holds a
\* purchase of it; a create_output call of a user who does neither is
\* answered 403 and one for a missing prompt 404, and neither stores an
\* output or an analytics row; an update_output or delete_output call of a
\* user other than the output's author is answered 403 and leaves the
\* outputs as they were.
C27_OutputsByEntitledAuthors ==
  /\ [](\A k \in DOMAIN outputs :
          Entitled(outputs[k].user_id, outputs[k].prompt_id))
  /\ [](last.op = "create_output" /\ last.user \in Users
         => /\ last.pid \notin DOMAIN prompts => last.status = HTTP_404
            /\ last.pid \in DOMAIN prompts /\ ~Entitled(last.user, last.pid)
                 => last.status = HTTP_403)
  /\ [][ /\ last'.op = "create_output"
              /\ last'.status \in {HTTP_403, HTTP_404}
              => outputs' = outputs /\ analytics' = analytics
         /\ ( /\ last'.op \in {"update_output", "delete_output"}
              /\ last'.user \in Users
              /\ last'.id \in DOMAIN outputs
              /\ outputs[last'.id].user_id # last'.user )
              => last'.status = HTTP_403 /\ outputs' = outputs ]_vars

C27_Witness ==
  /\ last.op = "delete_output" /\ last.status = HTTP_403 /\ last.user = 1
  /\ last.id \in DOMAIN outputs
  /\ outputs[last.id].user_id = 2
  /\ GrantsFor(2, outputs[last.id].prompt_id) # EmptyBag

\* C26: every stored prompt has a positive price: create_prompt rejects a
\* price_cents of zero or less and stores nothing.
C26_PromptPricePositive ==
  /\ \A pid \in DOMAIN prompts : prompts[pid].price_cents > 0
  /\ last.op = "create_prompt" /\ NotPositive(last.price)
       => last.status = HTTP_400

\* some id of the list names no prompt; some id names a prompt of another user
AnyMissing(ids) == \E i \in 1..Len(ids) : ids[i] \notin DOMAIN prompts
AnyForeign(ids, u) ==
  \E i \in 1..Len(ids) :
    ids[i] \in DOMAIN prompts /\ prompts[ids[i]].owner_id # u

\* C28: every bundle link joins a stored bundle to a stored prompt whose
\* owner is the bundle's owner; a create_bundle call naming a missing prompt
\* is answered 404 and one naming another user's prompt 403, and neither
\* stores a bundle or a link; an update_bundle or delete_bundle call of a
\* user other than the bundle's owner is answered 403 and changes nothing.
C28_LinksJoinOwnPrompts ==
  /\ [](\A l \in bundle_prompts :
          /\ l.bundle_id \in DOMAIN bundles
          /\ l.prompt_id \in DOMAIN prompts
          /\ prompts[l.prompt_id].owner_id = bundles[l.bundle_id].owner_id)
  /\ [](last.op = "create_bundle" /\ last.user \in Users
         /\ ~NotPositive(last.price)
         => /\ AnyMissing(last.ids) /\ ~AnyForeign(last.ids, last.user)
                 => last.status = HTTP_404
            /\ AnyForeign(last.ids, last.user) /\ ~AnyMissing(last.ids)
                 => last.status = HTTP_403
            /\ AnyMissing(last.ids) \/ AnyForeign(last.ids, last.user)
                 => last.status \in {HTTP_403, HTTP_404})
  /\ [][ /\ last'.op = "create_bundle"
              /\ last'.status \in {HTTP_403, HTTP_404}
              => bundles' = bundles /\ bundle_prompts' = bundle_prompts
         /\ ( /\ last'.op \in {"update_bundle", "delete_bundle"}
              /\ last'.user \in Users
              /\ last'.id \in DOMAIN bundles
              /\ bundles[last'.id].owner_id # last'.user )
              => /\ last'.status = HTTP_403
                 /\ bundles' = bundles /\ bundle_prompts' = bundle_prompts
       ]_vars

C28_Witness ==
  /\ last.op = "create_bundle" /\ last.status = HTTP_403
  /\ last.user = 1 /\ last.ids = <<OtherPrompt>>
  /\ \E l \in bundle_prompts :
       /\ l.prompt_id = OtherPrompt
       /\ bundles[l.bundle_id].owner_id = 2

\* C29: create_bundle is all or nothing: a call that does not succeed stores
\* neither a bundle nor a link, so no bundle created from a list of prompt ids
\* is ever stored without its links.
C29_CreateBundleAllOrNothing ==
  /\ [](\A k \in DOMAIN bundles : BundleLinks(k) # {})
  /\ [][ last'.op = "create_bundle" /\ last'.status # HTTP_200
           => bundles' = bundles /\ bundle_prompts' = bundle_prompts ]_vars

\* the purchase rows the webhook wrote: those whose payment identifier is a
\* checkout session's
WebhookRows ==
  [g \in {x \in BagToSet(purchases) :
            \E u \in Users, pid \in PromptIds :
              x.payment_id = <<"cs_", IdStr[u], IdStr[pid]>>}
     |-> purchases[g]]

\* the delivery last answered is one the handler is to act on
Accepted(r) ==
  stripeSecret /\ r.signed /\ r.type = "checkout.session.completed"

\* C30: the webhook writes a purchase, with its analytics row in the same
\* step, only when the payment secret is configured, the signature verifies
\* and the event is checkout.session.completed; a delivery with a bad
\* signature is answered 400, one of another type or without a configured
\* secret is answered ok, and each of these leaves the purchases and the
\* analytics as they were.
C30_WebhookWritesOnlyVerified ==
  /\ [](WebhookRows # EmptyBag => stripeSecret)
  /\ [](last.op = "stripe_webhook"
         => last.status = IF stripeSecret /\ ~last.signed
                            THEN HTTP_400 ELSE HTTP_200)
  /\ [][ /\ WebhookRows' # WebhookRows
              => /\ last'.op = "stripe_webhook" /\ Accepted(last')
                 /\ last'.status = HTTP_200
                 /\ \E u \in Users, pid \in PromptIds :
                      /\ last'.user = u /\ last'.pid = pid
                      /\ purchases' = purchases (+) SetToBag(
                           {[user_id |-> u, prompt_id |-> pid,
                             payment_id |-> <<"cs_", IdStr[u], IdStr[pid]>>]})
                      /\ analytics' = analytics (+) SetToBag(
                           {[prompt_id |-> pid, user_id |-> u,
                             event_type |-> "purchase"]})
         /\ last' # last /\ last'.op = "stripe_webhook" /\ ~Accepted(last')
              => purchases' = purchases /\ analytics' = analytics ]_vars

C30_Witness ==
  /\ last.op = "stripe_webhook" /\ last.status = HTTP_400 /\ ~last.signed
  /\ last.type = "checkout.session.completed"
  /\ WebhookRows # EmptyBag
  /\ BagCardinality(purchases) = BagCardinality(WebhookRows)
  /\ BagCardinality(analytics) = BagCardinality(purchases)
====
